---------------------------- MODULE Spec2Model ----------------------------
(***************************************************************************)
(* RadarPulse: the multi-site pulse detection network.                     *)
(*                                                                         *)
(* Tensors are modelled by their shapes (sequences of extents); a layer is *)
(* an operator from a shape to a result record [ok, shape], ok = FALSE     *)
(* standing for the exception the tensor runtime raises on a shape the     *)
(* layer cannot take.                                                      *)
(*                                                                         *)
(* Specifications:                                                         *)
(*   SpecNet     PulseDetectionNet: construction and forward pass          *)
(*   SpecRange   the values of x along PulseDetectionNet.forward, each      *)
(*               tensor summarised by [nan, inf, rng]                      *)
(*   SpecFusion  CrossSiteTemporalAttention: construction and forward, the  *)
(*               tensors with their vectors                                *)
(*   Spec        MultiSitePulseDetectionNet: construction and forward       *)
(*   SpecFreeze  MultiSitePulseDetectionNet: freeze_site, unfreeze_site,    *)
(*               freeze_all_sites on a constructed object                  *)
(*   SpecLoad    MultiSitePulseDetectionNet.load_pretrained                 *)
(*   SpecData    PulseDataset: construction, _load_data                     *)
(*   SpecTopk    SpatialReductionPreprocessing.forward, the activations     *)
(*               with their values                                         *)
(***************************************************************************)
EXTENDS Integers, Sequences, FiniteSets, TLC

VARIABLES
    \* ---- PulseDetectionNet (src/src/models/network.py) ----
    net_state,          \* "none" | "built" | "init_error"
    net_cfg,            \* the constructor's arguments
    encoder_blocks,     \* self.encoder_blocks: sequence of [cin, cout, k]
    decoder_blocks,     \* self.decoder_blocks: sequence of [cin, cout, k]
    fwd_pc,             \* position inside PulseDetectionNet.forward
    x_in,               \* the shape forward was called with, (N, L, C)
    x,                  \* the local x of forward
    skip_connections,   \* the local skip_connections of forward
    dec_i,              \* index of the next (decoder, skip) pair of the zip
    \* ---- value ranges along PulseDetectionNet.forward ----
    ops,                \* the operations forward applies to x, in order
    op_i,               \* index of the next operation
    val_in,             \* summary of the values of the input tensor
    val,                \* summary of the values of x
    val_skips,          \* summaries of the stored skip tensors
    val_pre,            \* summary of x when the last Sigmoid was entered
    \* ---- CrossSiteTemporalAttention (src/src/models/network_joint.py) ----
    fus_state,          \* "none" | "built" | "init_error"
    hidden_size,        \* the hidden_size the block was constructed with
    site_features,      \* the argument of forward: a list of tensors
    fus_pc,             \* position inside CrossSiteTemporalAttention.forward
    fus_x,              \* the tensor forward is working on
    fus_out,            \* the list forward returns
    \* ---- MultiSitePulseDetectionNet (src/src/models/network_joint.py) ----
    model,              \* the object: its attributes after __init__
    ms_pc,              \* "idle" | "raised" | "returned": MultiSitePulseDetectionNet.forward
    ms_in,              \* the shape of site_inputs, (N, num_sites, L, C)
    ms_err,             \* the exception forward raised
    ms_out,             \* what forward returned
    requires_grad,      \* param.requires_grad of every parameter of the object
    call,               \* the last freeze/unfreeze call: [op, site_idx, raised]
    last_call,          \* per site, the last call that reached its parameters
    grad_before,        \* requires_grad as it was before the last call
    \* ---- MultiSitePulseDetectionNet.load_pretrained ----
    load_pc,            \* "idle" | "loop" | "raised" | "done"
    load_i,             \* index of the next (network, path) pair of the zip
    n_paths,            \* len(paths)
    state_dict,         \* torch.load(path)['state_dict']: its names, in order
    renamed,            \* the key the comprehension computes for each name
    new_state_dict,     \* new_state_dict: key -> the saved name whose tensor it holds
    loaded,             \* per site network, the tensors load_state_dict copied in
    \* ---- SpatialReductionPreprocessing.forward, the activations ----
    sr_pc,              \* "idle" | "processed" | "selected" | "done" | "raised"
    sr_out_channels,    \* self.out_channels
    sr_training,        \* self.training
    sr_in,              \* the shape forward was called with, (batch, spatial, temporal)
    sr_x,               \* x: [dims, cols], cols the spatial column of each (batch, map, time)
    sr_pre,             \* x as it entered torch.topk
    sr_ret,             \* the shape returned
    \* ---- PulseDataset (src/src/data/dataset.py) ----
    ds_pc,              \* position inside _load_data
    is_joint,           \* self.is_joint
    file_list,          \* file_list: what each file holds for the pulse position
    file_i,             \* index of the file the running loop is at
    total_samples,      \* total_samples
    ds_data,            \* self.data: per row, the file that filled it (0: as allocated)
    ds_label,           \* self.label: likewise
    file_name,          \* self.file_name
    current_idx         \* current_idx

netVars == <<net_state, net_cfg, encoder_blocks, decoder_blocks,
             fwd_pc, x_in, x, skip_connections, dec_i>>

rangeVars == <<ops, op_i, val_in, val, val_skips, val_pre>>

fusVars == <<fus_state, hidden_size, site_features, fus_pc, fus_x, fus_out>>

msVars == <<model, ms_pc, ms_in, ms_err, ms_out>>

gradVars == <<requires_grad, call, last_call, grad_before>>

loadVars == <<load_pc, load_i, n_paths, state_dict, renamed, new_state_dict, loaded>>

topkVars == <<sr_pc, sr_out_channels, sr_training, sr_in, sr_x, sr_pre, sr_ret>>

dataVars == <<ds_pc, is_joint, file_list, file_i, total_samples, ds_data, ds_label,
              file_name, current_idx>>

vars == <<netVars, rangeVars, fusVars, msVars, gradVars, loadVars, topkVars, dataVars>>

-----------------------------------------------------------------------------
(* Bounds of the model *)

MaxStages == 2
MaxBatch == 2
MaxT == 8
MaxFusedSites == 2
MaxLen == 2
MaxSites == 3
MaxNameLen == 3
MaxEntries == 2
MaxLoadSites == 2
MaxSpatial == 3
MaxFiles == 3
MaxRows == 2

(* Values the configurations and inputs are drawn from *)

HiddenChoices == {64, 128}
LstmChoices == {64, 128}
\* odd kernel sizes only: the specification fixes an odd kernel (its section 4.2)
KernelChoices == {3, 5}
SeqLenChoices == {5000, 5001, 5004}
ReduceChoices == {8}
InChannelChoices == {21}
SpatialChoices == {4, 21}
WidthChoices == {4, 8}
HiddenSizeChoices == {4, 6, 8}
SiteInChannelChoices == {21, 42}
SiteSeqLenChoices == {5000}
BatchChoices == {1, 16}
ActivationChoices == {0, 1, 2}
SrBatchChoices == {1, 2}
SrTimeChoices == {1, 2}
PairLists == {<<>>, <<<<0, 1>>>>, <<<<1, 0>>, <<0, 1>>>>, <<<<0, 1>>, <<0, 1>>>>,
              <<<<1, 2>>, <<0, 2>>, <<0, 1>>>>}

(* Program constants *)

FinalChannels == 32
NumHeads == 4
DefaultReduceChannels == 8
DefaultKernelSize == 5
DefaultHiddenChannels == <<64, 128, 256>>
FeatureMaps == 16

-----------------------------------------------------------------------------
(* Generic helpers *)

RECURSIVE Pow2(_)
Pow2(n) == IF n = 0 THEN 1 ELSE 2 * Pow2(n - 1)

RECURSIVE SeqsUpTo(_, _)
SeqsUpTo(S, n) ==
    IF n = 0 THEN {<<>>}
    ELSE LET shorter == SeqsUpTo(S, n - 1)
         IN  shorter \cup {Append(s, e) : s \in {t \in shorter : Len(t) = n - 1}, e \in S}

Reverse(s) == [i \in 1..Len(s) |-> s[Len(s) + 1 - i]]

Ok(s) == [ok |-> TRUE, shape |-> s]
Raised == [ok |-> FALSE, shape |-> <<>>]

NoShape == <<>>

-----------------------------------------------------------------------------
(* Layers of the tensor runtime, on shapes (N, C, T) *)

\* output length of a convolution of kernel k and padding pad, stride 1
ConvLen(T, k, pad) == T + 2 * pad - k + 1

\* nn.Conv1d(cin, cout, k, padding=pad)
Conv1d(cin, cout, k, pad, s) ==
    LET T == ConvLen(s[3], k, pad)
    IN  IF s[2] = cin /\ T >= 1 THEN Ok(<<s[1], cout, T>>) ELSE Raised

\* nn.BatchNorm1d(c) in training mode (the mode a module is constructed in):
\* it refuses a single value per channel
BatchNorm1d(c, s) ==
    IF s[2] = c /\ s[1] * s[3] > 1 THEN Ok(s) ELSE Raised

\* nn.MaxPool1d(2): floor(T / 2), and no empty output
MaxPool1d(s) ==
    IF s[3] \div 2 >= 1 THEN Ok(<<s[1], s[2], s[3] \div 2>>) ELSE Raised

\* nn.ConvTranspose1d(c, c, kernel_size=2, stride=2): (T - 1) * 2 + 2
ConvTranspose1d(c, s) ==
    IF s[2] = c THEN Ok(<<s[1], c, (s[3] - 1) * 2 + 2>>) ELSE Raised

\* torch.cat([a, b], dim=1)
Cat1(a, b) ==
    IF a[1] = b[1] /\ a[3] = b[3] THEN Ok(<<a[1], a[2] + b[2], a[3]>>) ELSE Raised

\* transpose(1, 2) of a 3-axis tensor
Transpose12(s) == <<s[1], s[3], s[2]>>

\* nn.LSTM(input_size, hidden_size, bidirectional=True, batch_first=True) on (N, L, C)
LSTM(input_size, hidden, s) ==
    IF s[3] = input_size THEN Ok(<<s[1], s[2], 2 * hidden>>) ELSE Raised

\* r, then layer F when r did not raise
Then(r, F(_)) == IF r.ok THEN F(r.shape) ELSE r

-----------------------------------------------------------------------------
(* SpatialReductionPreprocessing.forward: (batch, spatial, temporal) ->      *)
(* (batch, out_channels, temporal).  The two 5x7 convolutions pad by (2, 3)  *)
(* and keep both extents; torch.topk(x, out_channels, dim=2) needs at least  *)
(* out_channels spatial positions.                                           *)

SpatialReductionPreprocessing_forward(out_channels, s) ==
    LET batch == s[1]
        spatial == s[2]
        temporal == s[3]
        conv2d(n) == ConvLen(n, 5, 2)       \* spatial axis: kernel 5, padding 2
        conv2dT(n) == ConvLen(n, 7, 3)      \* time axis: kernel 7, padding 3
        sp == conv2d(conv2d(spatial))
        tp == conv2dT(conv2dT(temporal))
    IN  IF batch * sp * tp > 1 /\ sp >= out_channels
        THEN Ok(<<batch, out_channels, tp>>)
        ELSE Raised

-----------------------------------------------------------------------------
(* EncoderBlock and DecoderBlock *)

Block(cin, cout, k) == [cin |-> cin, cout |-> cout, k |-> k]

\* EncoderBlock.conv
EncoderBlock_conv(b, s) ==
    LET c1(t) == Conv1d(b.cin, b.cout, b.k, b.k \div 2, t)
        n1(t) == BatchNorm1d(b.cout, t)
        c2(t) == Conv1d(b.cout, b.cout, b.k, b.k \div 2, t)
        n2(t) == BatchNorm1d(b.cout, t)
    IN  Then(Then(Then(c1(s), n1), c2), n2)

\* EncoderBlock.forward: (self.pool(features), features)
EncoderBlock_forward(b, s) ==
    LET features == EncoderBlock_conv(b, s)
        pooled == Then(features, MaxPool1d)
    IN  [ok |-> pooled.ok, shape |-> pooled.shape, features |-> features.shape]

\* DecoderBlock.forward(x, skip)
DecoderBlock_forward(b, s, skip) ==
    LET up(t) == ConvTranspose1d(b.cin, t)
        cat(t) == Cat1(t, skip)
        c1(t) == Conv1d(b.cin * 2, b.cin, b.k, b.k \div 2, t)
        n1(t) == BatchNorm1d(b.cin, t)
        c2(t) == Conv1d(b.cin, b.cout, b.k, b.k \div 2, t)
        n2(t) == BatchNorm1d(b.cout, t)
    IN  Then(Then(Then(Then(Then(up(s), cat), c1), n1), c2), n2)

\* PulseDetectionNet.final: Conv1d(32, 32, 3, padding=1), BatchNorm1d(32), ReLU,
\* Conv1d(32, 1, 1), Sigmoid
Final_forward(s) ==
    LET c1(t) == Conv1d(FinalChannels, FinalChannels, 3, 1, t)
        n1(t) == BatchNorm1d(FinalChannels, t)
        c2(t) == Conv1d(FinalChannels, 1, 1, 0, t)
    IN  Then(Then(c1(s), n1), c2)

-----------------------------------------------------------------------------
(* PulseDetectionNet.__init__ *)

NetConfigs ==
    [in_channels : InChannelChoices,
     seq_len : SeqLenChoices,
     reduce_channels : ReduceChoices,
     hidden_channels : SeqsUpTo(HiddenChoices, MaxStages),
     kernel_size : KernelChoices,
     use_lstm : BOOLEAN,
     lstm_hidden_size : LstmChoices]

\* the encoder loop: one EncoderBlock per entry of hidden_channels
EncoderBlocksOf(cfg) ==
    [i \in 1..Len(cfg.hidden_channels) |->
        Block(IF i = 1 THEN cfg.reduce_channels ELSE cfg.hidden_channels[i - 1],
              cfg.hidden_channels[i], cfg.kernel_size)]

\* current_channels when the decoder loop starts
BottleneckChannels(cfg) ==
    IF cfg.use_lstm THEN cfg.lstm_hidden_size * 2
    ELSE IF Len(cfg.hidden_channels) = 0 THEN cfg.reduce_channels
    ELSE cfg.hidden_channels[Len(cfg.hidden_channels)]

\* hidden_channels[::-1] with 32 appended
HiddenChannelsReversed(cfg) == Append(Reverse(cfg.hidden_channels), FinalChannels)

\* the decoder loop: in_ch = current_channels, out_ch = hidden_channels_reversed[i + 1]
DecoderBlocksOf(cfg) ==
    LET rev == HiddenChannelsReversed(cfg)
    IN  [i \in 1..(Len(rev) - 1) |->
            Block(IF i = 1 THEN BottleneckChannels(cfg) ELSE rev[i],
                  rev[i + 1], cfg.kernel_size)]

\* the only statement of __init__ that can raise on these arguments:
\* hidden_channels[-1] of an empty schedule when the LSTM is built
NetInitRaises(cfg) == cfg.use_lstm /\ Len(cfg.hidden_channels) = 0

PulseDetectionNet_init(cfg) ==
    /\ net_state = "none"
    /\ net_cfg' = cfg
    /\ IF NetInitRaises(cfg)
       THEN /\ net_state' = "init_error"
            /\ UNCHANGED <<encoder_blocks, decoder_blocks>>
       ELSE /\ net_state' = "built"
            /\ encoder_blocks' = EncoderBlocksOf(cfg)
            /\ decoder_blocks' = DecoderBlocksOf(cfg)
    /\ UNCHANGED <<fwd_pc, x_in, x, skip_connections, dec_i>>
    /\ UNCHANGED <<rangeVars, fusVars, msVars, gradVars, loadVars, topkVars, dataVars>>

-----------------------------------------------------------------------------
(* PulseDetectionNet.forward, one action per statement group *)

InputShapes == {<<n, t, c>> : n \in 1..MaxBatch, t \in 1..MaxT, c \in SpatialChoices}

Raise ==
    /\ fwd_pc' = "raised"
    /\ UNCHANGED <<x, skip_connections, dec_i>>

\* x = x.transpose(1, 2); skip_connections = []
Forward_call(s) ==
    /\ net_state = "built"
    /\ fwd_pc = "idle"
    /\ x_in' = s
    /\ x' = Transpose12(s)
    /\ skip_connections' = <<>>
    /\ dec_i' = 1
    /\ fwd_pc' = "spatial"
    /\ UNCHANGED <<net_state, net_cfg, encoder_blocks, decoder_blocks>>
    /\ UNCHANGED <<rangeVars, fusVars, msVars, gradVars, loadVars, topkVars, dataVars>>

\* x = self.spatial_processing(x)
Forward_spatial ==
    /\ fwd_pc = "spatial"
    /\ LET r == SpatialReductionPreprocessing_forward(net_cfg.reduce_channels, x)
       IN  IF r.ok
           THEN /\ x' = r.shape
                /\ fwd_pc' = "encoder"
                /\ UNCHANGED <<skip_connections, dec_i>>
           ELSE Raise
    /\ UNCHANGED <<net_state, net_cfg, encoder_blocks, decoder_blocks, x_in>>
    /\ UNCHANGED <<rangeVars, fusVars, msVars, gradVars, loadVars, topkVars, dataVars>>

\* one iteration of: for encoder in self.encoder_blocks
Forward_encoder ==
    /\ fwd_pc = "encoder"
    /\ Len(skip_connections) < Len(encoder_blocks)
    /\ LET r == EncoderBlock_forward(encoder_blocks[Len(skip_connections) + 1], x)
       IN  IF r.ok
           THEN /\ x' = r.shape
                /\ skip_connections' = Append(skip_connections, r.features)
                /\ UNCHANGED <<fwd_pc, dec_i>>
           ELSE Raise
    /\ UNCHANGED <<net_state, net_cfg, encoder_blocks, decoder_blocks, x_in>>
    /\ UNCHANGED <<rangeVars, fusVars, msVars, gradVars, loadVars, topkVars, dataVars>>

\* the bottleneck (if self.use_lstm: transpose, lstm, transpose), then
\* skip_connections = skip_connections[::-1]
SkipOrder_NotReversed(skips) == skips

SkipOrder(skips) == Reverse(skips)

Forward_lstm ==
    /\ fwd_pc = "encoder"
    /\ Len(skip_connections) = Len(encoder_blocks)
    /\ LET r == IF net_cfg.use_lstm
                THEN LSTM(net_cfg.hidden_channels[Len(net_cfg.hidden_channels)],
                          net_cfg.lstm_hidden_size, Transpose12(x))
                ELSE Ok(Transpose12(x))
       IN  IF r.ok
           THEN /\ x' = Transpose12(r.shape)
                /\ skip_connections' = SkipOrder(skip_connections)
                /\ dec_i' = 1
                /\ fwd_pc' = "decoder"
           ELSE Raise
    /\ UNCHANGED <<net_state, net_cfg, encoder_blocks, decoder_blocks, x_in>>
    /\ UNCHANGED <<rangeVars, fusVars, msVars, gradVars, loadVars, topkVars, dataVars>>

\* one iteration of: for decoder, skip in zip(self.decoder_blocks, skip_connections)
ZipLen == IF Len(decoder_blocks) < Len(skip_connections)
          THEN Len(decoder_blocks) ELSE Len(skip_connections)

Forward_decoder ==
    /\ fwd_pc = "decoder"
    /\ dec_i <= ZipLen
    /\ LET r == DecoderBlock_forward(decoder_blocks[dec_i], x, skip_connections[dec_i])
       IN  IF r.ok
           THEN /\ x' = r.shape
                /\ dec_i' = dec_i + 1
                /\ UNCHANGED <<fwd_pc, skip_connections>>
           ELSE Raise
    /\ UNCHANGED <<net_state, net_cfg, encoder_blocks, decoder_blocks, x_in>>
    /\ UNCHANGED <<rangeVars, fusVars, msVars, gradVars, loadVars, topkVars, dataVars>>

\* x = self.final(x); return x.transpose(1, 2)
Forward_final ==
    /\ fwd_pc = "decoder"
    /\ dec_i > ZipLen
    /\ LET r == Final_forward(x)
       IN  IF r.ok
           THEN /\ x' = Transpose12(r.shape)
                /\ fwd_pc' = "done"
                /\ UNCHANGED <<skip_connections, dec_i>>
           ELSE Raise
    /\ UNCHANGED <<net_state, net_cfg, encoder_blocks, decoder_blocks, x_in>>
    /\ UNCHANGED <<rangeVars, fusVars, msVars, gradVars, loadVars, topkVars, dataVars>>

-----------------------------------------------------------------------------
(* Values along PulseDetectionNet.forward.                                   *)
(*                                                                           *)
(* A tensor of float32 values is summarised by                               *)
(*   nan : it holds a NaN                                                    *)
(*   inf : it holds +inf or -inf                                             *)
(*   rng : where its finite elements lie: "unit" all in [0, 1]; "nonneg" all *)
(*         >= 0 and one above 1; "any" one below 0                           *)
(* An operation maps a summary to the set of summaries its result can have,  *)
(* over all finite weights and all tensors the summary stands for (IEEE 754  *)
(* arithmetic: a sum or product of finite values may overflow to an          *)
(* infinity, inf - inf and 0 * inf are NaN, NaN propagates).                 *)

Ranges == {"unit", "nonneg", "any"}
Summaries == [nan : BOOLEAN, inf : BOOLEAN, rng : Ranges]

RangeRank(r) == CASE r = "unit" -> 0 [] r = "nonneg" -> 1 [] r = "any" -> 2
Narrower(r) == {q \in Ranges : RangeRank(q) <= RangeRank(r)}
Wider(a, b) == IF RangeRank(a) >= RangeRank(b) THEN a ELSE b

InUnit(v) == ~v.nan /\ ~v.inf /\ v.rng = "unit"
Finite(v) == ~v.nan /\ ~v.inf

\* Conv1d, Conv2d, ConvTranspose1d: weighted sums with finite weights
ConvValues(v) ==
    {w \in Summaries :
        /\ w.nan \in (IF v.nan THEN {TRUE} ELSE IF v.inf THEN BOOLEAN ELSE {FALSE})}

\* BatchNorm in training mode: (x - mean) / sqrt(var + eps) * weight + bias
\* over the batch; an infinity in the batch makes the mean infinite and
\* inf - inf a NaN
BatchNormValues(v) ==
    {w \in Summaries : w.nan = (v.nan \/ v.inf) /\ ~w.inf}

\* ReLU: max(0, x); NaN stays, -inf becomes 0, +inf stays
ReLUValues(v) ==
    {w \in Summaries :
        /\ w.nan = v.nan
        /\ w.inf \in (IF v.inf THEN BOOLEAN ELSE {FALSE})
        /\ w.rng \in (IF v.rng = "any" THEN {"unit", "nonneg"} ELSE {v.rng})}

\* torch.topk along one axis, MaxPool1d: a selection of the elements; NaN
\* counts as the largest value
SelectValues(v) ==
    {w \in Summaries :
        /\ w.nan = v.nan
        /\ w.inf \in (IF v.inf THEN BOOLEAN ELSE {FALSE})
        /\ w.rng \in Narrower(v.rng)}

\* nn.LSTM: h = o * tanh(c), within [-1, 1] unless NaN
LSTMValues(v) ==
    {w \in Summaries :
        /\ w.nan \in (IF v.nan THEN {TRUE} ELSE IF v.inf THEN BOOLEAN ELSE {FALSE})
        /\ ~w.inf
        /\ w.rng \in {"unit", "any"}}

\* torch.cat of x and a skip tensor
CatValues(v, s) ==
    {[nan |-> v.nan \/ s.nan, inf |-> v.inf \/ s.inf, rng |-> Wider(v.rng, s.rng)]}

\* Sigmoid: 1 / (1 + exp(-x)); 0 at -inf, 1 at +inf, NaN at NaN
SigmoidValues(v) ==
    {[nan |-> v.nan, inf |-> FALSE, rng |-> "unit"]}

\* transpose, unsqueeze, squeeze: the values as they are
SameValues(v) == {v}

OpValues(op, v, s) ==
    CASE op = "conv" -> ConvValues(v)
      [] op = "bn" -> BatchNormValues(v)
      [] op = "relu" -> ReLUValues(v)
      [] op = "select" -> SelectValues(v)
      [] op = "lstm" -> LSTMValues(v)
      [] op = "cat" -> CatValues(v, s)
      [] op = "sigmoid" -> SigmoidValues(v)
      [] OTHER -> SameValues(v)

RECURSIVE Repeat(_, _)
Repeat(s, n) == IF n = 0 THEN <<>> ELSE s \o Repeat(s, n - 1)

\* SpatialReductionPreprocessing.forward
SpatialOps == <<"unsqueeze", "conv", "bn", "relu", "conv", "bn", "relu",
                "select", "conv", "squeeze">>
\* EncoderBlock.forward: self.conv, the features kept as the skip, self.pool
EncoderOps == <<"conv", "bn", "relu", "conv", "bn", "relu", "push", "select">>
\* the bottleneck of forward
LstmOps == <<"transpose", "lstm", "transpose">>
\* DecoderBlock.forward
DecoderOps == <<"conv", "cat", "conv", "bn", "relu", "conv", "bn", "relu">>
FinalOps_NoSigmoid == <<"conv", "bn", "relu", "conv">>

\* PulseDetectionNet.final
FinalOps == <<"conv", "bn", "relu", "conv", "sigmoid">>
\* what forward does with the result of self.final
ReturnOps == <<"transpose">>

\* PulseDetectionNet.forward of a network with k stages
ForwardOps(k, use_lstm) ==
    <<"transpose">> \o SpatialOps \o Repeat(EncoderOps, k)
        \o (IF use_lstm THEN LstmOps ELSE <<>>)
        \o Repeat(DecoderOps, k) \o FinalOps \o ReturnOps

\* one operation of forward
Forward_op ==
    /\ op_i <= Len(ops)
    /\ LET op == ops[op_i]
           top == IF val_skips = <<>> THEN val ELSE val_skips[Len(val_skips)]
       IN  /\ val' \in OpValues(op, val, top)
           /\ val_skips' = CASE op = "push" -> Append(val_skips, val)
                             [] op = "cat" -> SubSeq(val_skips, 1, Len(val_skips) - 1)
                             [] OTHER -> val_skips
           /\ val_pre' = IF op = "sigmoid" THEN val ELSE val_pre
    /\ op_i' = op_i + 1
    /\ UNCHANGED <<ops, val_in>>
    /\ UNCHANGED <<netVars, fusVars, msVars, gradVars, loadVars, topkVars, dataVars>>

NoSummary == [nan |-> FALSE, inf |-> FALSE, rng |-> "unit"]

RangeIdle ==
    /\ ops = <<>>
    /\ op_i = 1
    /\ val_in = NoSummary
    /\ val = NoSummary
    /\ val_skips = <<>>
    /\ val_pre = NoSummary

-----------------------------------------------------------------------------
(* CrossSiteTemporalAttention.                                               *)
(*                                                                           *)
(* A tensor of feature vectors is [dims, width, data]: dims its extents but  *)
(* the last, width the last extent, data its vectors in row-major order.  A  *)
(* vector is [src, site_grp, time_grp]: the (batch, site, timepoint) of the  *)
(* input vector it continues through the residual path, and the vectors of   *)
(* the attention group it was in at each stage (<<>> before the stage).      *)

Vector(n, s, l) == [src |-> <<n, s, l>>, site_grp |-> <<>>, time_grp |-> <<>>]

Tensor(dims, width, data) == [dims |-> dims, width |-> width, data |-> data]
NoTensor == Tensor(<<>>, 0, <<>>)

RECURSIVE Product(_)
Product(d) == IF d = <<>> THEN 1 ELSE d[1] * Product(Tail(d))

Flat3(d, a, b, c) == ((a - 1) * d[2] + (b - 1)) * d[3] + c

\* the tensor of site s as the per-site encoder hands it over: (N, L, C)
SiteTensor(s, N, L, C) ==
    Tensor(<<N, L>>, C, [i \in 1..(N * L) |-> Vector((i - 1) \div L + 1, s, ((i - 1) % L) + 1)])

ShapeOf(t) == t.dims \o <<t.width>>

\* torch.stack(tensors, dim=1) of tensors (N, L, C): (N, num_sites, L, C)
Stack1(ts) ==
    IF Len(ts) = 0 \/ \E i \in 1..Len(ts) : ShapeOf(ts[i]) # ShapeOf(ts[1])
    THEN [ok |-> FALSE, t |-> NoTensor]
    ELSE LET N == ts[1].dims[1]
             L == ts[1].dims[2]
             S == Len(ts)
         IN  [ok |-> TRUE,
              t |-> Tensor(<<N, S, L>>, ts[1].width,
                     [i \in 1..(N * S * L) |->
                        LET n == (i - 1) \div (S * L) + 1
                            sl == (i - 1) % (S * L)
                        IN  ts[sl \div L + 1].data[(n - 1) * L + (sl % L) + 1]])]

\* the extents exchanged, the vectors left where they were
Transpose12of4_DimsOnly(t) ==
    Tensor(<<t.dims[1], t.dims[3], t.dims[2]>>, t.width, t.data)

\* t.transpose(1, 2) of a tensor (A, B, C, width), laid out row-major again
\* by the reshape that follows
Transpose12of4(t) ==
    LET d == t.dims
        nd == <<d[1], d[3], d[2]>>
    IN  Tensor(nd, t.width,
            [i \in 1..Len(t.data) |->
                LET a == (i - 1) \div (nd[2] * nd[3]) + 1
                    r == (i - 1) % (nd[2] * nd[3])
                IN  t.data[Flat3(d, a, (r % nd[3]) + 1, r \div nd[3] + 1)]])

\* t.reshape(*dims, width): the same elements in the same row-major order
Reshape(t, dims) ==
    IF Product(dims) = Product(t.dims)
    THEN [ok |-> TRUE, t |-> Tensor(dims, t.width, t.data)]
    ELSE [ok |-> FALSE, t |-> NoTensor]

\* the sources of the vectors of row b of a tensor (B, G, width)
Group(t, b) == [j \in 1..t.dims[2] |-> t.data[(b - 1) * t.dims[2] + j].src]

\* nn.MultiheadAttention(embed_dim, num_heads, batch_first=True)(q, q, q) on
\* (B, G, width), the residual added and nn.LayerNorm(embed_dim) applied:
\* every vector attends over the G vectors of its row
SiteAttention(embed_dim, t) ==
    IF t.width # embed_dim THEN [ok |-> FALSE, t |-> NoTensor]
    ELSE [ok |-> TRUE,
          t |-> [t EXCEPT !.data = [i \in 1..Len(t.data) |->
                    [t.data[i] EXCEPT !.site_grp = Group(t, (i - 1) \div t.dims[2] + 1)]]]]

TemporalAttention(embed_dim, t) ==
    IF t.width # embed_dim THEN [ok |-> FALSE, t |-> NoTensor]
    ELSE [ok |-> TRUE,
          t |-> [t EXCEPT !.data = [i \in 1..Len(t.data) |->
                    [t.data[i] EXCEPT !.time_grp = Group(t, (i - 1) \div t.dims[2] + 1)]]]]

\* output[:, i, :, :] of a tensor (N, num_sites, L, width), i from 0
SelectSite(t, i) ==
    LET N == t.dims[1]
        L == t.dims[3]
    IN  Tensor(<<N, L>>, t.width,
            [j \in 1..(N * L) |-> t.data[Flat3(t.dims, (j - 1) \div L + 1, i + 1, ((j - 1) % L) + 1)]])

\* CrossSiteTemporalAttention.__init__: nn.MultiheadAttention asserts that
\* embed_dim is divisible by num_heads
CrossSiteTemporalAttention_init(h) ==
    /\ fus_state = "none"
    /\ hidden_size' = h
    /\ fus_state' = IF h % NumHeads = 0 THEN "built" ELSE "init_error"
    /\ UNCHANGED <<site_features, fus_pc, fus_x, fus_out>>
    /\ UNCHANGED <<netVars, rangeVars, msVars, gradVars, loadVars, topkVars, dataVars>>

\* stacked = torch.stack(site_features, dim=1); N, num_sites, L, C = stacked.shape
Fusion_call(ts) ==
    /\ fus_state = "built"
    /\ fus_pc = "idle"
    /\ site_features' = ts
    /\ LET r == Stack1(ts)
       IN  IF r.ok
           THEN fus_x' = r.t /\ fus_pc' = "site"
           ELSE fus_x' = NoTensor /\ fus_pc' = "raised"
    /\ UNCHANGED <<fus_state, hidden_size, fus_out>>
    /\ UNCHANGED <<netVars, rangeVars, msVars, gradVars, loadVars, topkVars, dataVars>>

\* the dims of reshaped: stacked.transpose(1, 2).reshape(N*L, num_sites, C)
SiteDims(N, S, L) == <<N * L, S>>

\* 1. cross-site attention at each timepoint
Fusion_site ==
    /\ fus_pc = "site"
    /\ LET N == fus_x.dims[1]
           S == fus_x.dims[2]
           L == fus_x.dims[3]
           reshaped == Reshape(Transpose12of4(fus_x), SiteDims(N, S, L))
           site_attn == IF reshaped.ok THEN SiteAttention(hidden_size, reshaped.t)
                        ELSE reshaped
           \* temporal_input = site_attn.reshape(N, L, num_sites, C).transpose(1, 2)
           back == IF site_attn.ok THEN Reshape(site_attn.t, <<N, L, S>>) ELSE site_attn
       IN  IF back.ok
           THEN fus_x' = Transpose12of4(back.t) /\ fus_pc' = "temporal"
           ELSE fus_x' = NoTensor /\ fus_pc' = "raised"
    /\ UNCHANGED <<fus_state, hidden_size, site_features, fus_out>>
    /\ UNCHANGED <<netVars, rangeVars, msVars, gradVars, loadVars, topkVars, dataVars>>

\* the dims of temporal_input after reshape(N*num_sites, L, C)
TemporalDims(N, S, L) == <<N * S, L>>

\* 2. temporal attention for each site's features
Fusion_temporal ==
    /\ fus_pc = "temporal"
    /\ LET N == fus_x.dims[1]
           S == fus_x.dims[2]
           L == fus_x.dims[3]
           temporal_input == Reshape(fus_x, TemporalDims(N, S, L))
           temporal_attn == IF temporal_input.ok
                            THEN TemporalAttention(hidden_size, temporal_input.t)
                            ELSE temporal_input
       IN  IF temporal_attn.ok
           THEN fus_x' = temporal_attn.t /\ fus_pc' = "output"
           ELSE fus_x' = NoTensor /\ fus_pc' = "raised"
    /\ UNCHANGED <<fus_state, hidden_size, site_features, fus_out>>
    /\ UNCHANGED <<netVars, rangeVars, msVars, gradVars, loadVars, topkVars, dataVars>>

OutputDims_TimeBeforeSite(N, S, L) == <<N, L, S>>

\* the dims of output: temporal_attn.reshape(N, num_sites, L, C)
OutputDims(N, S, L) == <<N, S, L>>

\* output = temporal_attn.reshape(N, num_sites, L, C);
\* return [output[:, i, :, :] for i in range(num_sites)]
Fusion_return ==
    /\ fus_pc = "output"
    /\ LET N == site_features[1].dims[1]
           L == site_features[1].dims[2]
           S == Len(site_features)
           output == Reshape(fus_x, OutputDims(N, S, L))
       IN  IF output.ok /\ S <= output.t.dims[2]    \* else output[:, i] is out of range
           THEN /\ fus_out' = [i \in 1..S |-> SelectSite(output.t, i - 1)]
                /\ fus_x' = output.t
                /\ fus_pc' = "done"
           ELSE fus_x' = NoTensor /\ fus_pc' = "raised" /\ UNCHANGED fus_out
    /\ UNCHANGED <<fus_state, hidden_size, site_features>>
    /\ UNCHANGED <<netVars, rangeVars, msVars, gradVars, loadVars, topkVars, dataVars>>

FusIdle ==
    /\ fus_state = "none"
    /\ hidden_size = 0
    /\ site_features = <<>>
    /\ fus_pc = "idle"
    /\ fus_x = NoTensor
    /\ fus_out = <<>>

-----------------------------------------------------------------------------
(* MultiSitePulseDetectionNet.__init__ *)

\* a site configuration as the callers write it: the three keys given, the
\* other arguments of PulseDetectionNet.__init__ at their defaults
SiteConfigs ==
    [in_channels : SiteInChannelChoices,
     seq_len : SiteSeqLenChoices,
     lstm_hidden_size : LstmChoices]

\* PulseDetectionNet(**config)
WithDefaults(c) ==
    [in_channels |-> c.in_channels, seq_len |-> c.seq_len,
     reduce_channels |-> DefaultReduceChannels,
     hidden_channels |-> DefaultHiddenChannels,
     kernel_size |-> DefaultKernelSize, use_lstm |-> TRUE,
     lstm_hidden_size |-> c.lstm_hidden_size]

SiteNetwork(c) ==
    [cfg |-> WithDefaults(c),
     encoder_blocks |-> EncoderBlocksOf(WithDefaults(c)),
     decoder_blocks |-> DecoderBlocksOf(WithDefaults(c))]

\* the pairs argument: None, or a list of pairs of site indices (from 0)
NoPairs == [given |-> FALSE, list |-> <<>>]
PairArgs == {NoPairs} \cup {[given |-> TRUE, list |-> l] : l \in PairLists}

\* the pairs (i, j), j in range(i+1, num_sites), appended for i in range(num_sites)
RECURSIVE PairsFrom(_, _, _)
PairsFrom(i, j, n) ==
    IF i >= n THEN <<>>
    ELSE IF j >= n THEN PairsFrom(i + 1, i + 2, n)
    ELSE <<<<i, j>>>> \o PairsFrom(i, j + 1, n)

AllPairs(n) == PairsFrom(0, 1, n)

\* f'{pair[0]}_{pair[1]}'
Key(pair) == ToString(pair[1]) \o "_" \o ToString(pair[2])

PTTRegressionHead(in_features, hidden_features) ==
    [in_features |-> in_features, hidden_features |-> hidden_features]

\* the width the fusion block and the heads are built for:
\* site_configs[0]['lstm_hidden_size'] * 2
FusedWidth(site_configs) == site_configs[1].lstm_hidden_size * 2

NoModel ==
    [state |-> "none", num_sites |-> 0, site_networks |-> <<>>,
     site_in_channels |-> <<>>, enable_fusion |-> FALSE, direct_ptt |-> FALSE,
     cross_site_attention |-> [present |-> FALSE, hidden_size |-> 0],
     all_pairs |-> <<>>, fused_feature_dim |-> 0, head_keys |-> {},
     ptt_regression_heads |-> <<>>]

\* the object __init__ leaves, or state "init_error" where it raises:
\* site_configs[0] of an empty list, or a fusion width that num_heads does
\* not divide
Constructed(site_configs, enable_fusion, direct_ptt, pairs) ==
    IF Len(site_configs) = 0
        \/ (enable_fusion /\ FusedWidth(site_configs) % NumHeads # 0)
    THEN [NoModel EXCEPT !.state = "init_error"]
    ELSE LET lstm_hidden_size == FusedWidth(site_configs)
             all_pairs == IF ~direct_ptt THEN <<>>
                          ELSE IF pairs.given THEN pairs.list
                          ELSE AllPairs(Len(site_configs))
             keys == {Key(all_pairs[k]) : k \in 1..Len(all_pairs)}
         IN  [state |-> "built",
              num_sites |-> Len(site_configs),
              site_networks |-> [i \in 1..Len(site_configs) |-> SiteNetwork(site_configs[i])],
              site_in_channels |-> [i \in 1..Len(site_configs) |-> site_configs[i].in_channels],
              enable_fusion |-> enable_fusion,
              direct_ptt |-> direct_ptt,
              cross_site_attention |->
                  [present |-> enable_fusion,
                   hidden_size |-> IF enable_fusion THEN lstm_hidden_size ELSE 0],
              all_pairs |-> all_pairs,
              fused_feature_dim |-> IF direct_ptt THEN lstm_hidden_size ELSE 0,
              head_keys |-> keys,
              ptt_regression_heads |->
                  [k \in 1..Len(all_pairs) |->
                      PTTRegressionHead(2 * lstm_hidden_size, lstm_hidden_size)]]

\* the parameters of the object, by owner; every nn.Parameter is created
\* with requires_grad = True
SiteParamNames == {"encoder_blocks.0.conv.0.weight", "lstm.weight_ih_l0", "final.3.bias"}
FusionParamNames == {"site_attention.in_proj_weight", "norm2.bias"}
HeadParamNames == {"fc.0.weight", "fc.3.bias"}

AllTrainable(m) ==
    [sites |-> [i \in 1..m.num_sites |-> [p \in SiteParamNames |-> TRUE]],
     fusion |-> IF m.cross_site_attention.present
                THEN [p \in FusionParamNames |-> TRUE] ELSE <<>>,
     heads |-> [k \in m.head_keys |-> [p \in HeadParamNames |-> TRUE]]]

NoCall == [op |-> "none", site_idx |-> 0, raised |-> FALSE]

MultiSitePulseDetectionNet_init(site_configs, enable_fusion, direct_ptt, pairs) ==
    /\ model.state = "none"
    /\ model' = Constructed(site_configs, enable_fusion, direct_ptt, pairs)
    /\ requires_grad' = AllTrainable(model')
    /\ grad_before' = requires_grad'
    /\ last_call' = [i \in 1..model'.num_sites |-> "none"]
    /\ UNCHANGED <<ms_pc, ms_in, ms_err, ms_out, call>>
    /\ UNCHANGED <<netVars, rangeVars, fusVars, loadVars, topkVars, dataVars>>

-----------------------------------------------------------------------------
(* MultiSitePulseDetectionNet.forward *)

\* what class PulseDetectionNet defines (network.py), besides what it
\* inherits from nn.Module: its methods and the attributes __init__ sets
PulseDetectionNet_attributes ==
    {"__init__", "forward", "seq_len", "use_lstm", "spatial_processing",
     "encoder_blocks", "lstm", "decoder_blocks", "final"}

NoOut == [shape |-> <<>>, columns |-> <<>>, decoded |-> <<>>]

SiteInputShapes ==
    {<<n, s, l, c>> : n \in BatchChoices, s \in 1..MaxSites,
                      l \in SiteSeqLenChoices, c \in SiteInChannelChoices}

\* forward(site_inputs).  The first statement of the first iteration of the
\* encoding loop evaluates network.encode, and PulseDetectionNet has no
\* attribute of that name (nor bottleneck, nor decode): nn.Module.__getattr__
\* raises AttributeError before anything is computed.  A constructed object
\* has at least one site, so the loop body is always entered.
MultiSite_forward(site_inputs) ==
    /\ model.state = "built"
    /\ ms_pc = "idle"
    /\ ms_in' = site_inputs
    /\ IF model.num_sites >= 1 /\ "encode" \notin PulseDetectionNet_attributes
       THEN /\ ms_pc' = "raised"
            /\ ms_err' = "AttributeError"
            /\ ms_out' = NoOut
       ELSE /\ ms_pc' = "encoded"
            /\ UNCHANGED <<ms_err, ms_out>>
    /\ UNCHANGED <<model, gradVars>>
    /\ UNCHANGED <<netVars, rangeVars, fusVars, loadVars, topkVars, dataVars>>

-----------------------------------------------------------------------------
(* unfreeze_site, freeze_site, freeze_all_sites *)

\* self.site_networks[site_idx] of an nn.ModuleList: an index from -len to
\* len - 1, the negative ones counted from the end; IndexError otherwise
InRange(site_idx, n) == -n <= site_idx /\ site_idx < n
AbsIndex(site_idx, n) == IF site_idx < 0 THEN site_idx + n ELSE site_idx

\* for param in self.site_networks[site_idx].parameters(): param.requires_grad = flag
SetSite(rg, site, flag) ==
    [rg EXCEPT !.sites[site] = [p \in DOMAIN rg.sites[site] |-> flag]]

SiteCall(op, site_idx, flag) ==
    /\ model.state = "built"
    /\ grad_before' = requires_grad
    /\ IF InRange(site_idx, model.num_sites)
       THEN LET site == AbsIndex(site_idx, model.num_sites) + 1
            IN  /\ requires_grad' = SetSite(requires_grad, site, flag)
                /\ last_call' = [last_call EXCEPT ![site] = op]
                /\ call' = [op |-> op, site_idx |-> site_idx, raised |-> FALSE]
       ELSE /\ call' = [op |-> op, site_idx |-> site_idx, raised |-> TRUE]
            /\ UNCHANGED <<requires_grad, last_call>>
    /\ UNCHANGED msVars
    /\ UNCHANGED <<netVars, rangeVars, fusVars, loadVars, topkVars, dataVars>>

unfreeze_site(site_idx) == SiteCall("unfreeze_site", site_idx, TRUE)

freeze_site(site_idx) == SiteCall("freeze_site", site_idx, FALSE)

FreezeAllRange_FromOne(n) == 1..(n - 1)

\* range(self.num_sites)
FreezeAllRange(n) == 0..(n - 1)

RECURSIVE FreezeEach(_, _)
FreezeEach(rg, sites) ==
    IF sites = {} THEN rg
    ELSE LET i == CHOOSE i \in sites : \A j \in sites : i <= j
         IN  FreezeEach(SetSite(rg, i + 1, FALSE), sites \ {i})

\* for i in range(self.num_sites): self.freeze_site(i)
freeze_all_sites ==
    /\ model.state = "built"
    /\ grad_before' = requires_grad
    /\ requires_grad' = FreezeEach(requires_grad, FreezeAllRange(model.num_sites))
    /\ last_call' = [i \in 1..model.num_sites |-> "freeze_all_sites"]
    /\ call' = [op |-> "freeze_all_sites", site_idx |-> 0, raised |-> FALSE]
    /\ UNCHANGED msVars
    /\ UNCHANGED <<netVars, rangeVars, fusVars, loadVars, topkVars, dataVars>>

MsIdle ==
    /\ model = NoModel
    /\ ms_pc = "idle"
    /\ ms_in = <<>>
    /\ ms_err = "none"
    /\ ms_out = NoOut

GradIdle ==
    /\ requires_grad = AllTrainable(NoModel)
    /\ call = NoCall
    /\ last_call = <<>>
    /\ grad_before = AllTrainable(NoModel)

-----------------------------------------------------------------------------
(* MultiSitePulseDetectionNet.load_pretrained.                               *)
(*                                                                           *)
(* A parameter name is a sequence of pieces of text, "model." one of them:   *)
(* <<"model.", "lstm.", "w">> is 'model.lstm.w'.                             *)

NamePieces == {"model.", "lstm.", "w"}
SavedNames == SeqsUpTo(NamePieces, MaxNameLen) \ {<<>>}

\* the site network's own parameter names: the keys of its state_dict
OwnNames == {<<"w">>, <<"lstm.", "w">>}

\* k.replace('model.', ''): every occurrence removed
Replace(k) == SelectSeq(k, LAMBDA piece : piece # "model.")

\* the saved files: lists of at most MaxEntries distinct names
StateDicts ==
    {sd \in SeqsUpTo(SavedNames, MaxEntries) :
        \A i, j \in 1..Len(sd) : i # j => sd[i] # sd[j]}

\* {k.replace('model.', ''): v for k, v in state_dict.items()}: of two names
\* with one key, the later one's tensor stays
NewStateDict(sd) ==
    [key \in {Replace(sd[j]) : j \in 1..Len(sd)} |->
        LET last == CHOOSE j \in 1..Len(sd) :
                        /\ Replace(sd[j]) = key
                        /\ \A i \in 1..Len(sd) : Replace(sd[i]) = key => i <= j
        IN  sd[last]]

Min(a, b) == IF a < b THEN a ELSE b

\* load_pretrained(paths)
load_pretrained(np) ==
    /\ model.state = "built"
    /\ load_pc = "idle"
    /\ n_paths' = np
    /\ load_i' = 1
    /\ load_pc' = "loop"
    /\ UNCHANGED <<state_dict, renamed, new_state_dict, loaded>>
    /\ UNCHANGED <<netVars, rangeVars, fusVars, msVars, gradVars, topkVars, dataVars>>

\* one iteration of: for network, path in zip(self.site_networks, paths);
\* network.load_state_dict(new_state_dict) is strict: it raises on a missing
\* or an unexpected key
Load_iteration(sd) ==
    /\ load_pc = "loop"
    /\ load_i <= Min(model.num_sites, n_paths)
    /\ state_dict' = sd
    /\ renamed' = [j \in 1..Len(sd) |-> Replace(sd[j])]
    /\ new_state_dict' = NewStateDict(sd)
    /\ IF DOMAIN new_state_dict' = OwnNames
       THEN /\ loaded' = [loaded EXCEPT ![load_i] = new_state_dict']
            /\ load_i' = load_i + 1
            /\ UNCHANGED load_pc
       ELSE /\ load_pc' = "raised"
            /\ UNCHANGED <<loaded, load_i>>
    /\ UNCHANGED n_paths
    /\ UNCHANGED <<netVars, rangeVars, fusVars, msVars, gradVars, topkVars, dataVars>>

Load_return ==
    /\ load_pc = "loop"
    /\ load_i > Min(model.num_sites, n_paths)
    /\ load_pc' = "done"
    /\ UNCHANGED <<load_i, n_paths, state_dict, renamed, new_state_dict, loaded>>
    /\ UNCHANGED <<netVars, rangeVars, fusVars, msVars, gradVars, topkVars, dataVars>>

\* a parameter as __init__ left it
Initial == <<"init">>

LoadIdle ==
    /\ load_pc = "idle"
    /\ load_i = 1
    /\ n_paths = 0
    /\ state_dict = <<>>
    /\ renamed = <<>>
    /\ new_state_dict = <<>>
    /\ loaded = <<>>

-----------------------------------------------------------------------------
(* SpatialReductionPreprocessing.forward with the values of the activations. *)
(*                                                                           *)
(* x is [dims, cols]: dims = (batch, feature maps, spatial, temporal), cols  *)
(* the values along the spatial axis at each (batch, feature map, time).     *)

NoActivations == [dims |-> <<>>, cols |-> <<>>]

\* the columns of n values a ReLU can leave
Columns(n) == [1..n -> ActivationChoices]

\* another column of the same length, of other values
Companion(col) ==
    [i \in 1..Len(col) |-> (col[i] + i) % Cardinality(ActivationChoices)]

\* x after self.spatial_temporal_processing: what the convolutions compute
\* depends on the weights, so any column can stand at a place; neighbouring
\* feature maps and neighbouring timepoints hold different columns
Activations(batch, spatial, temporal, col) ==
    [dims |-> <<batch, FeatureMaps, spatial, temporal>>,
     cols |-> [key \in (1..batch) \X (1..FeatureMaps) \X (1..temporal) |->
                  IF (key[1] + key[2] + key[3]) % 2 = 0 THEN col ELSE Companion(col)]]

MaxOf(col) == CHOOSE v \in {col[i] : i \in 1..Len(col)} :
                  \A i \in 1..Len(col) : col[i] <= v

RemoveOne(col, v) ==
    LET i == CHOOSE i \in 1..Len(col) : col[i] = v /\ \A j \in 1..(i - 1) : col[j] # v
    IN  SubSeq(col, 1, i - 1) \o SubSeq(col, i + 1, Len(col))

RECURSIVE SortedDescending(_)
SortedDescending(col) ==
    IF col = <<>> THEN <<>>
    ELSE <<MaxOf(col)>> \o SortedDescending(RemoveOne(col, MaxOf(col)))

\* the first k entries, whatever their values
TopK_FirstK(col, k) == SubSeq(col, 1, k)

\* torch.topk(x, k, dim=2)[0] along one column: the k largest, in descending
\* order (largest=True, sorted=True)
TopK(col, k) == SubSeq(SortedDescending(col), 1, k)

\* batch, spatial, temporal = x.shape; x = x.unsqueeze(1);
\* x = self.spatial_temporal_processing(x): both convolutions keep the spatial
\* and the temporal extent, nn.BatchNorm2d raises in training mode when a
\* channel holds a single value
SpatialReduction_call(k, training, s, col) ==
    /\ sr_pc = "idle"
    /\ sr_out_channels' = k
    /\ sr_training' = training
    /\ sr_in' = s
    /\ LET batch == s[1]
           spatial == ConvLen(ConvLen(s[2], 5, 2), 5, 2)
           temporal == ConvLen(ConvLen(s[3], 7, 3), 7, 3)
       IN  IF training /\ batch * spatial * temporal = 1
           THEN sr_pc' = "raised" /\ sr_x' = NoActivations
           ELSE /\ sr_pc' = "processed"
                /\ sr_x' = Activations(batch, spatial, temporal, col)
    /\ UNCHANGED <<sr_pre, sr_ret>>
    /\ UNCHANGED <<netVars, rangeVars, fusVars, msVars, gradVars, loadVars, dataVars>>

\* x = torch.topk(x, self.out_channels, dim=2)[0]: raises when the spatial
\* extent is below out_channels
SpatialReduction_topk ==
    /\ sr_pc = "processed"
    /\ IF sr_out_channels > sr_x.dims[3]
       THEN sr_pc' = "raised" /\ UNCHANGED <<sr_x, sr_pre>>
       ELSE /\ sr_pre' = sr_x
            /\ sr_x' = [dims |-> [sr_x.dims EXCEPT ![3] = sr_out_channels],
                        cols |-> [key \in DOMAIN sr_x.cols |->
                                     TopK(sr_x.cols[key], sr_out_channels)]]
            /\ sr_pc' = "selected"
    /\ UNCHANGED <<sr_out_channels, sr_training, sr_in, sr_ret>>
    /\ UNCHANGED <<netVars, rangeVars, fusVars, msVars, gradVars, loadVars, dataVars>>

\* x = self.channel_adjust(x); x = x.squeeze(1); return x
SpatialReduction_return ==
    /\ sr_pc = "selected"
    /\ IF sr_x.dims[2] = FeatureMaps
       THEN /\ sr_ret' = <<sr_x.dims[1], sr_x.dims[3], sr_x.dims[4]>>
            /\ sr_pc' = "done"
       ELSE sr_pc' = "raised" /\ UNCHANGED sr_ret
    /\ UNCHANGED <<sr_out_channels, sr_training, sr_in, sr_x, sr_pre>>
    /\ UNCHANGED <<netVars, rangeVars, fusVars, msVars, gradVars, loadVars, dataVars>>

-----------------------------------------------------------------------------
(* PulseDataset (src/src/data/dataset.py).                                   *)
(*                                                                           *)
(* A file is what np.load finds in it for the pulse position: whether the    *)
(* '<position>_label' and '<position>_data' arrays are there and how many    *)
(* rows each has.  A row of self.data or self.label holds the index of the   *)
(* file that filled it, 0 while it is as torch.empty left it.                *)

Files ==
    [has_label : BOOLEAN, has_data : BOOLEAN,
     label_len : 1..MaxRows, data_len : 1..MaxRows]

\* PulseDataset.__init__ up to the counting loop of _load_data
PulseDataset_init(joint, files) ==
    /\ ds_pc = "idle"
    /\ is_joint' = joint
    /\ file_list' = files
    /\ ds_pc' = IF Len(files) = 0 THEN "raised" ELSE "counting"
    /\ UNCHANGED <<file_i, total_samples, ds_data, ds_label, file_name, current_idx>>
    /\ UNCHANGED <<netVars, rangeVars, fusVars, msVars, gradVars, loadVars, topkVars>>

\* one iteration of the loop "Calculating total size"
LoadData_count ==
    /\ ds_pc = "counting"
    /\ file_i <= Len(file_list)
    /\ LET loaded_data == file_list[file_i]
       IN  IF loaded_data.has_label
           THEN /\ total_samples' = total_samples + loaded_data.label_len
                /\ file_i' = file_i + 1
                /\ UNCHANGED ds_pc
           ELSE IF is_joint
           THEN /\ ds_pc' = "raised"       \* loaded_data['head_label']: KeyError
                /\ UNCHANGED <<total_samples, file_i>>
           ELSE /\ file_i' = file_i + 1    \* continue
                /\ UNCHANGED <<total_samples, ds_pc>>
    /\ UNCHANGED <<is_joint, file_list, ds_data, ds_label, file_name, current_idx>>
    /\ UNCHANGED <<netVars, rangeVars, fusVars, msVars, gradVars, loadVars, topkVars>>

\* "Pre-allocate tensors": in joint mode sample_data is None and
\* sample_data.shape raises
LoadData_allocate ==
    /\ ds_pc = "counting"
    /\ file_i > Len(file_list)
    /\ IF is_joint
       THEN /\ ds_pc' = "raised"
            /\ UNCHANGED <<ds_data, ds_label, file_i, current_idx>>
       ELSE /\ ds_data' = [r \in 1..total_samples |-> 0]
            /\ ds_label' = [r \in 1..total_samples |-> 0]
            /\ current_idx' = 0
            /\ file_i' = 1
            /\ ds_pc' = "filling"
    /\ UNCHANGED <<is_joint, file_list, total_samples, file_name>>
    /\ UNCHANGED <<netVars, rangeVars, fusVars, msVars, gradVars, loadVars, topkVars>>

\* the rows t[start:stop] of a tensor of n rows
Slice(n, start, stop) ==
    {r \in 1..n : start < r /\ r <= stop}

\* t[start:stop] = value, value of rows rows: the rows must be as many as the
\* slice has, or one, which is broadcast
Assignable(n, start, stop, rows) ==
    rows = Cardinality(Slice(n, start, stop)) \/ rows = 1

SliceAssign(t, start, stop, v) ==
    [r \in 1..Len(t) |-> IF r \in Slice(Len(t), start, stop) THEN v ELSE t[r]]

Repeated(v, n) == [i \in 1..n |-> v]

\* one iteration of the loop "Loading data", single-position branch
LoadData_fill ==
    /\ ds_pc = "filling"
    /\ file_i <= Len(file_list)
    /\ LET loaded_data == file_list[file_i]
           batch_size == loaded_data.data_len
           stop == current_idx + batch_size
       IN  IF ~loaded_data.has_data
           THEN /\ file_i' = file_i + 1    \* continue
                /\ UNCHANGED <<ds_pc, ds_data, ds_label, file_name, current_idx>>
           ELSE IF ~loaded_data.has_label
           THEN /\ ds_pc' = "raised"       \* loaded_data['<position>_label']: KeyError
                /\ UNCHANGED <<file_i, ds_data, ds_label, file_name, current_idx>>
           ELSE IF ~Assignable(Len(ds_data), current_idx, stop, batch_size)
           THEN /\ ds_pc' = "raised"
                /\ UNCHANGED <<file_i, ds_data, ds_label, file_name, current_idx>>
           ELSE IF ~Assignable(Len(ds_label), current_idx, stop, loaded_data.label_len)
           THEN /\ ds_pc' = "raised"
                /\ ds_data' = SliceAssign(ds_data, current_idx, stop, file_i)
                /\ UNCHANGED <<file_i, ds_label, file_name, current_idx>>
           ELSE /\ ds_data' = SliceAssign(ds_data, current_idx, stop, file_i)
                /\ ds_label' = SliceAssign(ds_label, current_idx, stop, file_i)
                /\ file_name' = file_name \o Repeated(file_i, batch_size)
                /\ current_idx' = stop
                /\ file_i' = file_i + 1
                /\ UNCHANGED ds_pc
    /\ UNCHANGED <<is_joint, file_list, total_samples>>
    /\ UNCHANGED <<netVars, rangeVars, fusVars, msVars, gradVars, loadVars, topkVars>>

LoadData_return ==
    /\ ds_pc = "filling"
    /\ file_i > Len(file_list)
    /\ ds_pc' = "done"
    /\ UNCHANGED <<is_joint, file_list, file_i, total_samples, ds_data, ds_label,
                   file_name, current_idx>>
    /\ UNCHANGED <<netVars, rangeVars, fusVars, msVars, gradVars, loadVars, topkVars>>

\* __len__
PulseDataset_len == Len(ds_label)

\* __getitem__(idx), idx from 0: the triple, or IndexError
PulseDataset_getitem(idx) ==
    IF idx < Len(ds_data) /\ idx < Len(ds_label) /\ idx < Len(file_name)
    THEN [ok |-> TRUE, item |-> <<ds_data[idx + 1], ds_label[idx + 1], file_name[idx + 1]>>]
    ELSE [ok |-> FALSE, item |-> <<>>]

-----------------------------------------------------------------------------
(* Nothing called on SpatialReductionPreprocessing or PulseDataset *)

TopkIdle ==
    /\ sr_pc = "idle"
    /\ sr_out_channels = 0
    /\ sr_training = TRUE
    /\ sr_in = <<>>
    /\ sr_x = NoActivations
    /\ sr_pre = NoActivations
    /\ sr_ret = <<>>

DataIdle ==
    /\ ds_pc = "idle"
    /\ is_joint = FALSE
    /\ file_list = <<>>
    /\ file_i = 1
    /\ total_samples = 0
    /\ ds_data = <<>>
    /\ ds_label = <<>>
    /\ file_name = <<>>
    /\ current_idx = 0

-----------------------------------------------------------------------------
(* SpecNet: one PulseDetectionNet, constructed once, one forward pass *)

NoCfg == [in_channels |-> 0, seq_len |-> 0, reduce_channels |-> 0,
          hidden_channels |-> <<>>, kernel_size |-> 0, use_lstm |-> FALSE,
          lstm_hidden_size |-> 0]

NetIdle ==
    /\ net_state = "none"
    /\ net_cfg = NoCfg
    /\ encoder_blocks = <<>>
    /\ decoder_blocks = <<>>
    /\ fwd_pc = "idle"
    /\ x_in = NoShape
    /\ x = NoShape
    /\ skip_connections = <<>>
    /\ dec_i = 1

InitNet == NetIdle /\ RangeIdle /\ FusIdle /\ TopkIdle /\ DataIdle /\ MsIdle /\ GradIdle /\ LoadIdle

NextNet ==
    \/ \E cfg \in NetConfigs : PulseDetectionNet_init(cfg)
    \/ \E s \in InputShapes : Forward_call(s)
    \/ Forward_spatial
    \/ Forward_encoder
    \/ Forward_lstm
    \/ Forward_decoder
    \/ Forward_final

SpecNet == InitNet /\ [][NextNet]_vars

-----------------------------------------------------------------------------
(* SpecRange: forward on a tensor of any values, for every number of stages *)

InitRange ==
    /\ NetIdle
    /\ FusIdle /\ TopkIdle /\ DataIdle
    /\ MsIdle
    /\ GradIdle
    /\ LoadIdle
    /\ \E k \in 1..MaxStages, l \in BOOLEAN : ops = ForwardOps(k, l)
    /\ op_i = 1
    /\ val_in \in Summaries
    /\ val = val_in
    /\ val_skips = <<>>
    /\ val_pre = NoSummary

NextRange == Forward_op

SpecRange == InitRange /\ [][NextRange]_vars

-----------------------------------------------------------------------------
(* SpecFusion: one CrossSiteTemporalAttention, one forward on any list of    *)
(* per-site tensors, of equal shapes or not                                  *)

FeatureLists ==
    {[i \in 1..Len(sh) |-> SiteTensor(i, sh[i][1], sh[i][2], sh[i][3])] :
        sh \in SeqsUpTo((1..MaxBatch) \X (1..MaxLen) \X WidthChoices, MaxFusedSites)}

InitFusion == NetIdle /\ RangeIdle /\ FusIdle /\ TopkIdle /\ DataIdle /\ MsIdle /\ GradIdle /\ LoadIdle

NextFusion ==
    \/ \E h \in HiddenSizeChoices : CrossSiteTemporalAttention_init(h)
    \/ \E ts \in FeatureLists : Fusion_call(ts)
    \/ Fusion_site
    \/ Fusion_temporal
    \/ Fusion_return

SpecFusion == InitFusion /\ [][NextFusion]_vars

-----------------------------------------------------------------------------
(* Spec: one MultiSitePulseDetectionNet, constructed once from any list of   *)
(* site configurations, one forward pass                                     *)

Init == NetIdle /\ RangeIdle /\ FusIdle /\ TopkIdle /\ DataIdle /\ MsIdle /\ GradIdle /\ LoadIdle

Next ==
    \/ \E cs \in SeqsUpTo(SiteConfigs, MaxSites), f \in BOOLEAN, d \in BOOLEAN,
          ps \in PairArgs : MultiSitePulseDetectionNet_init(cs, f, d, ps)
    \/ \E si \in SiteInputShapes : MultiSite_forward(si)

Spec == Init /\ [][Next]_vars

-----------------------------------------------------------------------------
(* SpecFreeze: a constructed MultiSitePulseDetectionNet of any number of     *)
(* sites, any sequence of freeze and unfreeze calls                          *)

InitFreeze ==
    /\ NetIdle /\ RangeIdle /\ FusIdle /\ TopkIdle /\ DataIdle /\ LoadIdle
    /\ \E n \in 1..MaxSites, c \in SiteConfigs, f \in BOOLEAN, d \in BOOLEAN :
          model = Constructed([i \in 1..n |-> c], f, d, NoPairs)
    /\ ms_pc = "idle"
    /\ ms_in = <<>>
    /\ ms_err = "none"
    /\ ms_out = NoOut
    /\ requires_grad = AllTrainable(model)
    /\ grad_before = requires_grad
    /\ call = NoCall
    /\ last_call = [i \in 1..model.num_sites |-> "none"]

SiteIndices == (0 - MaxSites - 1)..MaxSites

NextFreeze ==
    \/ \E i \in SiteIndices : unfreeze_site(i)
    \/ \E i \in SiteIndices : freeze_site(i)
    \/ freeze_all_sites

SpecFreeze == InitFreeze /\ [][NextFreeze]_vars

-----------------------------------------------------------------------------
(* SpecLoad: a constructed MultiSitePulseDetectionNet, one load_pretrained   *)
(* on any number of paths, each file holding any names                       *)

InitLoad ==
    /\ NetIdle /\ RangeIdle /\ FusIdle /\ TopkIdle /\ DataIdle
    /\ \E n \in 1..MaxLoadSites :
          \E c \in {sc \in SiteConfigs : sc.in_channels = 21 /\ sc.lstm_hidden_size = 128} :
              model = Constructed([i \in 1..n |-> c], TRUE, FALSE, NoPairs)
    /\ ms_pc = "idle"
    /\ ms_in = <<>>
    /\ ms_err = "none"
    /\ ms_out = NoOut
    /\ requires_grad = AllTrainable(model)
    /\ grad_before = requires_grad
    /\ call = NoCall
    /\ last_call = [i \in 1..model.num_sites |-> "none"]
    /\ load_pc = "idle"
    /\ load_i = 1
    /\ n_paths = 0
    /\ state_dict = <<>>
    /\ renamed = <<>>
    /\ new_state_dict = <<>>
    /\ loaded = [i \in 1..model.num_sites |-> [k \in OwnNames |-> Initial]]

NextLoad ==
    \/ \E np \in 0..(MaxLoadSites + 1) : load_pretrained(np)
    \/ \E sd \in StateDicts : Load_iteration(sd)
    \/ Load_return

SpecLoad == InitLoad /\ [][NextLoad]_vars

-----------------------------------------------------------------------------
(* SpecTopk: one call of SpatialReductionPreprocessing.forward, any          *)
(* out_channels, mode, input shape and activations                           *)

InitTopk == NetIdle /\ RangeIdle /\ FusIdle /\ TopkIdle /\ DataIdle /\ MsIdle /\ GradIdle /\ LoadIdle

NextTopk ==
    \/ /\ sr_pc = "idle"
       /\ \E k \in 1..MaxSpatial, training \in BOOLEAN,
             s \in SrBatchChoices \X (1..MaxSpatial) \X SrTimeChoices :
             \E col \in Columns(s[2]) : SpatialReduction_call(k, training, s, col)
    \/ SpatialReduction_topk
    \/ SpatialReduction_return

SpecTopk == InitTopk /\ [][NextTopk]_vars

-----------------------------------------------------------------------------
(* SpecData: one PulseDataset constructed over any list of files             *)

InitData == NetIdle /\ RangeIdle /\ FusIdle /\ TopkIdle /\ DataIdle /\ MsIdle /\ GradIdle /\ LoadIdle

NextData ==
    \/ /\ ds_pc = "idle"
       /\ \E joint \in BOOLEAN, files \in SeqsUpTo(Files, MaxFiles) :
             PulseDataset_init(joint, files)
    \/ LoadData_count
    \/ LoadData_allocate
    \/ LoadData_fill
    \/ LoadData_return

SpecData == InitData /\ [][NextData]_vars

-----------------------------------------------------------------------------
(* Properties *)

K == Len(encoder_blocks)
T0 == x_in[2]
N0 == x_in[1]

C6_BadSeqLenRejected ==
    net_state = "built" =>
        net_cfg.seq_len % Pow2(Len(net_cfg.hidden_channels)) = 0

Returned == op_i > Len(ops)

\* C10 as stated: for a finite-valued input every element of the output lies
\* in [0, 1].
C10_UnitRangeForFiniteInput ==
    (Returned /\ Finite(val_in)) => InUnit(val)

\* C10 as amended: every element of the output that is not NaN lies in [0, 1],
\* and the output holds a NaN only if the tensor entering the final Sigmoid
\* held one.
C10_UnitRangeUnlessNaN ==
    Returned =>
        /\ ~val.inf
        /\ val.rng = "unit"
        /\ val.nan => val_pre.nan

C10_Witness ==
    /\ Returned
    /\ Finite(val_in)
    /\ val_pre.rng = "any"
    /\ InUnit(val)

SameShapes(ts) == \A i \in 1..Len(ts) : ShapeOf(ts[i]) = ShapeOf(ts[1])

\* C3: on a list of S >= 1 tensors of one shape (N, T, C), C the width the
\* block was built for, forward returns a list of exactly S tensors, each of
\* shape (N, T, C); it raises on no such list.
C3_FusionKeepsShapes ==
    (fus_pc # "idle" /\ Len(site_features) >= 1 /\ SameShapes(site_features)
        /\ site_features[1].width = hidden_size) =>
        /\ fus_pc # "raised"
        /\ fus_pc = "done" =>
            /\ Len(fus_out) = Len(site_features)
            /\ \A i \in 1..Len(fus_out) : ShapeOf(fus_out[i]) = ShapeOf(site_features[i])

C3_Witness ==
    /\ fus_pc = "done"
    /\ Len(fus_out) = MaxFusedSites
    /\ fus_out[1].dims = <<MaxBatch, 1>>

NumSites == model.num_sites
Called == ms_pc # "idle"

\* the pairs are in lexicographic order, first site before second
Lexicographic(ps) ==
    /\ \A k \in 1..Len(ps) : ps[k][1] < ps[k][2]
    /\ \A k \in 1..(Len(ps) - 1) :
          \/ ps[k][1] < ps[k + 1][1]
          \/ ps[k][1] = ps[k + 1][1] /\ ps[k][2] < ps[k + 1][2]

\* a call forward can serve: one input slice per site, every pair naming
\* sites of the object, at least one pair, one bottleneck width
Servable ==
    /\ Called
    /\ ms_in[2] = NumSites
    /\ model.all_pairs # <<>> \/ ~model.direct_ptt
    /\ \A k \in 1..Len(model.all_pairs) : \A e \in 1..2 :
          model.all_pairs[k][e] \in 0..(NumSites - 1)
    /\ \A i \in 1..NumSites :
          model.site_networks[i].cfg.lstm_hidden_size
              = model.site_networks[1].cfg.lstm_hidden_size

\* C1: in direct-PTT mode column k of the output is the estimate of the head
\* keyed by the k-th pair of the pair list, from the pooled features of the
\* pair's first and second site in that order; the default pair list is all
\* (i, j), i < j, in lexicographic order.
C1_ColumnsFollowPairList ==
    /\ AllPairs(3) = <<<<0, 1>>, <<0, 2>>, <<1, 2>>>>
    /\ \A n \in 1..MaxSites : Lexicographic(AllPairs(n))
    /\ (Servable /\ model.direct_ptt) =>
          /\ ms_pc = "returned"
          /\ Len(ms_out.columns) = Len(model.all_pairs)
          /\ \A k \in 1..Len(model.all_pairs) :
                ms_out.columns[k] = [head |-> Key(model.all_pairs[k]),
                                     first |-> model.all_pairs[k][1],
                                     second |-> model.all_pairs[k][2]]

\* the scenario of C4: 3 sites of 21, 42 and 21 channels, sequence length
\* 5000, lstm_hidden_size 128, fusion, direct PTT, default pairing, batch 16
Scenario ==
    /\ Called
    /\ NumSites = 3
    /\ model.site_in_channels = <<21, 42, 21>>
    /\ \A i \in 1..3 : model.site_networks[i].cfg.lstm_hidden_size = 128
    /\ \A i \in 1..3 : model.site_networks[i].cfg.seq_len = 5000
    /\ model.enable_fusion
    /\ model.direct_ptt
    /\ model.all_pairs = AllPairs(3)
    /\ ms_in = <<16, 3, 5000, 42>>

\* C4: in the scenario the forward pass completes and returns a tensor of
\* shape (16, 3): (N, number of pairs).
C4_ScenarioReturnsBatchByPairs ==
    Scenario =>
        /\ ms_pc = "returned"
        /\ ms_out.shape = <<16, 3>>
        /\ ms_out.shape = <<ms_in[1], Len(model.all_pairs)>>

\* C5: in decode mode site i is decoded by its own network from its own fused
\* features and the skips of its own encoder, and the outputs are stacked in
\* site order into (N, num_sites, T, 1).
C5_DecodeUsesOwnSkips ==
    (Servable /\ ~model.direct_ptt) =>
        /\ ms_pc = "returned"
        /\ ms_out.shape = <<ms_in[1], NumSites, ms_in[3], 1>>
        /\ Len(ms_out.decoded) = NumSites
        /\ \A i \in 1..NumSites :
              ms_out.decoded[i] = [network |-> i, features |-> i, skips |-> i]

\* C7: with fusion enabled, no object is constructed from site configurations
\* of different bottleneck widths.
C7_MismatchedWidthsRejected ==
    (model.state = "built" /\ model.enable_fusion) =>
        \A i, j \in 1..NumSites :
            2 * model.site_networks[i].cfg.lstm_hidden_size
                = 2 * model.site_networks[j].cfg.lstm_hidden_size

\* k with only a leading 'model.' removed
StripLeadingPrefix(k) == IF k # <<>> /\ k[1] = "model." THEN Tail(k) ELSE k

\* C8: every saved name is matched under the name left by removing only a
\* leading 'model.', and no two saved names are matched under one name.
C8_OnlyLeadingPrefixStripped ==
    /\ Len(renamed) = Len(state_dict)
    /\ \A j \in 1..Len(state_dict) : renamed[j] = StripLeadingPrefix(state_dict[j])
    /\ \A i, j \in 1..Len(state_dict) : i # j => renamed[i] # renamed[j]

Frozen(i) == \A p \in SiteParamNames : ~requires_grad.sites[i][p]

\* C9: after any calls, the parameters of one site carry one flag; site i is
\* frozen iff the last call that reached it was freeze_site or
\* freeze_all_sites; freeze_site and unfreeze_site leave every other site as
\* it was; the flags of the fusion block and of the heads never change.
C9_FreezeFrame ==
    model.state = "built" =>
        /\ \A i \in 1..NumSites : \A p, q \in SiteParamNames :
              requires_grad.sites[i][p] = requires_grad.sites[i][q]
        /\ \A i \in 1..NumSites :
              Frozen(i) <=> last_call[i] \in {"freeze_site", "freeze_all_sites"}
        /\ call.op \in {"freeze_site", "unfreeze_site"} =>
              \A i \in 1..NumSites :
                  (call.raised \/ i # AbsIndex(call.site_idx, NumSites) + 1) =>
                      requires_grad.sites[i] = grad_before.sites[i]
        /\ requires_grad.fusion = grad_before.fusion
        /\ requires_grad.heads = grad_before.heads
        /\ requires_grad.fusion = AllTrainable(model).fusion
        /\ requires_grad.heads = AllTrainable(model).heads

C9_Witness ==
    /\ NumSites = 3
    /\ model.cross_site_attention.present
    /\ model.head_keys # {}
    /\ last_call = <<"freeze_all_sites", "unfreeze_site", "freeze_site">>
    /\ call = [op |-> "freeze_site", site_idx |-> -1, raised |-> FALSE]
    /\ Frozen(1) /\ ~Frozen(2) /\ Frozen(3)

AllVectors(t) == {t.data[i] : i \in 1..Len(t.data)}

\* C11: the site-mixing stage runs first, on the raw inputs, each group the S
\* vectors of one (batch, timepoint) in site order; the temporal-mixing stage
\* runs second, on the site-mixing output, each group the T vectors of one
\* (batch, site) in time order; output tensor s at (n, l) is the fused vector
\* of input site s, batch n, timepoint l.
C11_StagesAndGroups ==
    /\ fus_pc = "site" =>
          \A v \in AllVectors(fus_x) : v.site_grp = <<>> /\ v.time_grp = <<>>
    /\ fus_pc = "temporal" =>
          \A v \in AllVectors(fus_x) : v.site_grp # <<>> /\ v.time_grp = <<>>
    /\ fus_pc = "done" =>
          LET N == site_features[1].dims[1]
              L == site_features[1].dims[2]
              S == Len(site_features)
          IN  \A s \in 1..S, n \in 1..N, l \in 1..L :
                  LET v == fus_out[s].data[(n - 1) * L + l]
                  IN  /\ v.src = <<n, s, l>>
                      /\ v.site_grp = [j \in 1..S |-> <<n, j, l>>]
                      /\ v.time_grp = [j \in 1..L |-> <<n, s, j>>]

C11_Witness ==
    /\ fus_pc = "done"
    /\ Len(fus_out) = 2
    /\ fus_out[2].dims = <<2, 2>>
    /\ fus_out[2].data[3].site_grp = <<<<2, 1, 1>>, <<2, 2, 1>>>>
    /\ fus_out[2].data[3].time_grp = <<<<2, 2, 1>>, <<2, 2, 2>>>>

\* C12: for every configuration, decoder stage i takes the skip of encoder
\* stage N-1-i, whose channel count equals the channel count of the stage's
\* input before upsampling (the in_channels its first convolution was built
\* for twice), and there are as many decoder stages as encoder stages.
C12_SkipChannelsMatch ==
    /\ net_state = "built" =>
          /\ Len(decoder_blocks) = Len(encoder_blocks)
          /\ \A i \in 1..Len(decoder_blocks) :
                encoder_blocks[Len(encoder_blocks) + 1 - i].cout = decoder_blocks[i].cin
    /\ (fwd_pc = "decoder" /\ dec_i <= ZipLen) =>
          /\ x[2] = decoder_blocks[dec_i].cin
          /\ skip_connections[dec_i][2] = x[2]
          /\ x[2] + skip_connections[dec_i][2] = 2 * decoder_blocks[dec_i].cin

\* C13: built with enable_fusion=False the object has no fusion block, and
\* its forward pass hands the bottleneck output of site i, unchanged, to the
\* downstream branch as the features of site i, in both output modes.
C13_NoFusionIsIdentity ==
    /\ (model.state = "built" /\ ~model.enable_fusion) =>
          ~model.cross_site_attention.present
    /\ (Servable /\ ~model.enable_fusion) =>
          /\ ms_pc = "returned"
          /\ ~model.direct_ptt =>
                /\ Len(ms_out.decoded) = NumSites
                /\ \A i \in 1..NumSites : ms_out.decoded[i].features = i
          /\ model.direct_ptt =>
                /\ Len(ms_out.columns) = Len(model.all_pairs)
                /\ \A k \in 1..Len(model.all_pairs) :
                      /\ ms_out.columns[k].first = model.all_pairs[k][1]
                      /\ ms_out.columns[k].second = model.all_pairs[k][2]

\* how often v occurs in col
Count(col, v) == Cardinality({i \in 1..Len(col) : col[i] = v})

\* kept holds k of the values of col, and none of the values left out is
\* larger than one kept
KLargest(kept, col, k) ==
    /\ Len(kept) = k
    /\ \A v \in ActivationChoices : Count(kept, v) <= Count(col, v)
    /\ \A v, w \in ActivationChoices :
          (Count(col, v) > Count(kept, v) /\ Count(kept, w) > 0) => v <= w

\* the selection step of C14: at each (batch, feature map, time) exactly the
\* out_channels largest values of the column stay, and the batch, feature-map
\* and time extents are as they were
SelectionKeepsLargest ==
    sr_pc \in {"selected", "done"} =>
        /\ sr_pre.dims = <<sr_in[1], FeatureMaps, sr_in[2], sr_in[3]>>
        /\ sr_x.dims = <<sr_in[1], FeatureMaps, sr_out_channels, sr_in[3]>>
        /\ DOMAIN sr_x.cols = DOMAIN sr_pre.cols
        /\ \A key \in DOMAIN sr_pre.cols :
              KLargest(sr_x.cols[key], sr_pre.cols[key], sr_out_channels)

\* C14: for every input (batch, spatial, time) with spatial >= reduced_spatial
\* the selection step keeps the reduced_spatial largest values of every
\* column, and the module returns shape (batch, reduced_spatial, time).
C14_TopKForEveryInput ==
    /\ SelectionKeepsLargest
    /\ sr_pc = "done" => sr_ret = <<sr_in[1], sr_out_channels, sr_in[3]>>
    /\ sr_pc = "raised" => sr_in[2] < sr_out_channels

\* C14 as amended: the same, for every such input that the batch
\* normalisation before the selection accepts (in training mode it raises on
\* an input of a single value).
C14_TopKUnlessSingleValue ==
    /\ SelectionKeepsLargest
    /\ sr_pc = "done" => sr_ret = <<sr_in[1], sr_out_channels, sr_in[3]>>
    /\ sr_pc = "raised" =>
          \/ sr_in[2] < sr_out_channels
          \/ sr_training /\ sr_in[1] * sr_in[2] * sr_in[3] = 1

C14_Witness ==
    /\ sr_pc = "done"
    /\ sr_in = <<2, 3, 2>>
    /\ sr_out_channels = 2
    /\ sr_pre.cols[<<1, 2, 1>>] = <<1, 2, 2>>
    /\ sr_x.cols[<<1, 2, 1>>] = <<2, 2>>
    /\ sr_pre.cols[<<1, 1, 1>>] = <<2, 1, 2>>
    /\ sr_x.cols[<<1, 1, 1>>] = <<2, 2>>
    /\ sr_pre.cols[<<2, 1, 1>>] = sr_pre.cols[<<1, 2, 1>>]

\* file i was counted by the first pass; file i filled rows in the second
Counted(i) == file_list[i].has_label
Filled(i) == \E r \in 1..Len(file_name) : file_name[r] = i

\* C15: in single-position mode _load_data ends, for every list of files,
\* with the write cursor at the number of rows allocated; every file counted
\* is filled and every file filled was counted; len(dataset) is the number of
\* file names, and every index below it returns filled data, a filled label
\* and a file name.
C15_CursorEqualsAllocation ==
    (~is_joint /\ file_list # <<>> /\ ds_pc \in {"raised", "done"}) =>
        /\ ds_pc = "done"
        /\ current_idx = total_samples
        /\ \A i \in 1..Len(file_list) : Counted(i) <=> Filled(i)
        /\ PulseDataset_len = Len(file_name)
        /\ \A idx \in 0..(PulseDataset_len - 1) :
              /\ PulseDataset_getitem(idx).ok
              /\ PulseDataset_getitem(idx).item[1] # 0
              /\ PulseDataset_getitem(idx).item[2] # 0

=============================================================================
